---- MODULE Spec2Model ----
(***************************************************************************)
(* The upload queue coordinator (hook useUploadQueue) and the transfer     *)
(* client (class UploadService) of file-uploader-challenge, as one state   *)
(* machine.  One action is one JavaScript task: a command of the hook, a   *)
(* timer callback, an XMLHttpRequest event with the promise continuations  *)
(* it releases, or a React commit with its effects.                        *)
(***************************************************************************)
EXTENDS Integers, Sequences, FiniteSets, Bags

\* ------------------------------------------------------------------ bounds
MaxFiles == 3        \* files ever enqueued (ids 1..MaxFiles)
MaxTransfers == 3    \* uploadWithRetry calls running at one time
MaxDeletes == 1      \* removeFile calls per id, and clearCompleted calls, awaiting deleteFile
MaxEvents == 3       \* retry / remove / clearCompleted / start / stop calls, failed
                     \* requests, and tasks that run between a state update and
                     \* its commit, in one run
MaxFailures == 4     \* the same in a run of transfers only (TransferSpec)
MaxRetryLimit == 13    \* the largest maxRetries given to uploadWithRetry (BackoffSpec)

\* ------------------------------------------------------- program constants
MAX_CONCURRENT_UPLOADS == 2
MAX_RETRY_ATTEMPTS == 3
RETRY_DELAYS == <<1000, 2000, 4000>>

maxConcurrent == MAX_CONCURRENT_UPLOADS
maxRetries == MAX_RETRY_ATTEMPTS

Ids == 1..MaxFiles

NoError == "none"
DeleteFailed == "Failed to delete from storage"
RetryableErrors == {"NETWORK_ERROR"}
FatalErrors == {"PARSE_ERROR"}
ProgressLevels == {50}

VARIABLES
  files,              \* useState files: the item collection, updaters applied
  uploading,          \* useState uploading: set of ids
  isProcessing,       \* useState isProcessing
  filesRef,           \* filesRef.current and the files captured by the callbacks
                      \* (the fields that are read from them: id, status, s3Key)
  uploadingRef,       \* uploadingRef.current
  renderedProcessing, \* isProcessing as of the last commit (effect dependency)
  processingRef,      \* processingRef.current
  processingTimeout,  \* a setTimeout(processLoop, 100) is pending
  transfers,          \* bag of running uploadWithRetry calls [id, attempt, phase, reg];
                      \* reg: activeUploads maps the id to this call's request
  hung,               \* ids with an uploadWithRetry call whose request was aborted
  removals,           \* removeFile calls awaiting deleteFile: id -> count
  clearing,           \* clearCompleted calls awaiting deleteFile
  remoteStore,        \* ids whose object exists in remote storage
  mounted,            \* the component is mounted
  autoStart,          \* option autoStart
  budget,             \* the events one run may take (MaxEvents, or MaxFailures)
  events,             \* commands, failed requests and tasks ahead of a commit so far
  nextId,             \* next id generateId hands out
  removedInFlight,    \* history: ids whose registered request a removeFile aborted
  clearedStatus,      \* history: the statuses of the items clearCompleted has removed
  stops,              \* history: stopProcessing calls just made in a row (at most 2)
  xhrEvent,           \* the request under classification: "none", "sent", or its last event
  xhrStatus,          \* xhr.status of its response (0: none yet)
  responseText,       \* xhr.responseText of that response, by what JSON.parse makes of it
  rejected,           \* how the promise of uploadService.uploadFile has settled for it
  retryLimit,         \* uploadWithRetry on its own: its argument maxRetries
  retryAttempt,       \* the attempt that call is at
  retryDelay          \* the delay of its last wait (0: none yet)

hookVars == <<files, uploading, isProcessing, filesRef, uploadingRef,
              renderedProcessing, processingRef, processingTimeout, transfers, hung,
              removals, clearing, remoteStore, mounted, autoStart, budget, events,
              nextId, removedInFlight, clearedStatus, stops>>

xhrVars == <<xhrEvent, xhrStatus, responseText, rejected>>

backoffVars == <<retryLimit, retryAttempt, retryDelay>>

vars == <<hookVars, xhrVars, backoffVars>>

reactVars == <<files, uploading, isProcessing>>
refVars == <<filesRef, uploadingRef, renderedProcessing>>

\* ----------------------------------------------------------------- helpers
Min(a, b) == IF a < b THEN a ELSE b
Max(a, b) == IF a > b THEN a ELSE b

\* Array.prototype.find by id, as the set of matches
FindId(fs, id) == {fs[i] : i \in {j \in 1..Len(fs) : fs[j].id = id}}

IdsOf(fs) == {fs[i].id : i \in 1..Len(fs)}
WithStatus(fs, st) == {fs[i].id : i \in {j \in 1..Len(fs) : fs[j].status = st}}

\* Array.prototype.slice(0, n)
Slice(s, n) == SubSeq(s, 1, Min(Len(s), Max(n, 0)))

\* the committed files as the refs and closures hold them; only id, status and
\* s3Key of a captured item are ever read
Snapshot(fs) ==
  [i \in 1..Len(fs) |-> [id |-> fs[i].id, status |-> fs[i].status, s3Key |-> fs[i].s3Key]]

\* state updates are queued that no commit has rendered yet
Stale ==
  /\ mounted
  /\ <<filesRef, uploadingRef, renderedProcessing>> # <<Snapshot(files), uploading, isProcessing>>

\* a variant of NewItem that starts the item with progress already made
NewItemHalfway(id) ==
  [id |-> id, status |-> "pending", progress |-> 50, retryCount |-> 0,
   error |-> NoError, s3Key |-> FALSE]

NewItem(id) ==
  [id |-> id, status |-> "pending", progress |-> 0, retryCount |-> 0,
   error |-> NoError, s3Key |-> FALSE]

\* a state update of the hook: React drops updates of an unmounted component
SetState(f, u, p) ==
  IF mounted THEN files' = f /\ uploading' = u /\ isProcessing' = p
  ELSE UNCHANGED reactVars

One(r) == SetToBag({r})
Running(id) == {r \in BagToSet(transfers) : r.id = id}

\* UploadService.activeUploads, as the set of its keys
activeUploads == {r.id : r \in {q \in BagToSet(transfers) : q.reg}}

\* ------------------------------------------ uploadService: response bodies
\* A response body, by what the handlers read from it: json is what
\* JSON.parse(xhr.responseText) yields ("empty" and "garbage" make it throw),
\* success and data are the members of a parsed object by their truthiness,
\* error is its error member, retryable the retryable member of an error
\* object.
Body(json, success, data, error, retryable) ==
  [json |-> json, success |-> success, data |-> data, error |-> error,
   retryable |-> retryable]

ErrorMembers ==
  {<<e, "absent">> : e \in {"absent", "null", "string"}}
    \cup {<<"object", v>> : v \in {"absent", "true", "false", "null", "zero", "string"}}

Bodies ==
  {Body(j, "absent", "absent", "absent", "absent") :
     j \in {"empty", "garbage", "null", "scalar"}}
    \cup {Body("object", sc, d, m[1], m[2]) :
            sc \in {"absent", "true", "false"}, d \in {"absent", "object"},
            m \in ErrorMembers}

\* the status the handler takes for a success
SuccessStatus == 200

\* the statuses of the responses considered, other than 200
HttpErrorStatuses == {201, 400, 404, 429, 499, 500, 503, 599}

\* the codes of an UploadError; "BODY_CODE" is the code member of the body's
\* error, "HTTP_STATUS" is HTTP_ followed by the status
Codes ==
  {"none", "PARSE_ERROR", "BODY_CODE", "BODY_CODE_OR_HTTP_STATUS", "HTTP_STATUS",
   "NETWORK_ERROR", "TIMEOUT_ERROR", "USER_CANCELLED", "SEND_ERROR"}

NotRejected == [settled |-> FALSE, resolved |-> FALSE, retryable |-> FALSE, code |-> "none"]

\* createUploadError(message, retryable, code), rejected with
UploadError(retryable, code) ==
  [settled |-> TRUE, resolved |-> FALSE, retryable |-> retryable, code |-> code]

Resolved == [settled |-> TRUE, resolved |-> TRUE, retryable |-> FALSE, code |-> "none"]

TypeOK ==
  /\ files \in Seq([id : Ids, status : {"pending", "uploading", "completed", "failed"},
                    progress : {0, 100} \cup ProgressLevels, retryCount : 0..maxRetries,
                    error : {NoError, DeleteFailed} \cup RetryableErrors \cup FatalErrors,
                    s3Key : BOOLEAN])
  /\ uploading \subseteq Ids
  /\ uploadingRef \subseteq Ids
  /\ isProcessing \in BOOLEAN
  /\ processingRef \in BOOLEAN
  /\ processingTimeout \in BOOLEAN
  /\ IsABag(transfers)
  /\ BagToSet(transfers) \subseteq [id : Ids, attempt : 0..maxRetries,
                                    phase : {"xhr", "backoff"}, reg : BOOLEAN]
  /\ BagCardinality(transfers) <= MaxTransfers
  /\ \A id \in Ids : BagCardinality([r \in {q \in Running(id) : q.reg} |-> transfers[r]]) <= 1
  /\ hung \subseteq Ids
  /\ removals \in [Ids -> 0..MaxDeletes]
  /\ Len(clearing) <= MaxDeletes
  /\ remoteStore \subseteq Ids
  /\ budget \in {MaxEvents, MaxFailures}
  /\ events \in 0..budget
  /\ nextId \in 1..(MaxFiles + 1)
  /\ removedInFlight \subseteq Ids
  /\ clearedStatus \subseteq {"pending", "uploading", "completed", "failed"}
  /\ stops \in 0..2
  /\ xhrEvent \in {"none", "sent", "load", "error", "timeout", "abort", "throw"}
  /\ xhrStatus \in {0, SuccessStatus} \cup HttpErrorStatuses
  /\ responseText \in Bodies
  /\ rejected \in [settled : BOOLEAN, resolved : BOOLEAN, retryable : BOOLEAN, code : Codes]
  /\ retryLimit \in 0..MaxRetryLimit
  /\ retryAttempt \in 0..retryLimit
  /\ retryDelay \in {0} \cup {RETRY_DELAYS[i] : i \in 1..Len(RETRY_DELAYS)}

Init ==
  /\ files = <<>>
  /\ uploading = {}
  /\ isProcessing = FALSE
  /\ filesRef = <<>>
  /\ uploadingRef = {}
  /\ renderedProcessing = FALSE
  /\ processingRef = FALSE
  /\ processingTimeout = FALSE
  /\ transfers = EmptyBag
  /\ hung = {}
  /\ removals = [id \in Ids |-> 0]
  /\ clearing = <<>>
  /\ remoteStore = {}
  /\ mounted = TRUE
  /\ autoStart \in BOOLEAN
  /\ budget = MaxEvents
  /\ events = 0
  /\ nextId = 1
  /\ removedInFlight = {}
  /\ clearedStatus = {}
  /\ stops = 0
  /\ xhrEvent = "none"
  /\ xhrStatus = 0
  /\ responseText = Body("empty", "absent", "absent", "absent", "absent")
  /\ rejected = NotRejected
  /\ retryLimit = maxRetries
  /\ retryAttempt = 0
  /\ retryDelay = 0

\* ------------------------------------------------------------ UploadService
\* activeUploads.delete(id): no call's request is registered under id any more
Unregister(B, id) ==
  LET regs == {r \in BagToSet(B) : r.id = id /\ r.reg}
  IN IF regs = {} THEN B
     ELSE LET r == CHOOSE q \in regs : TRUE
          IN (B (-) One(r)) (+) One([r EXCEPT !.reg = FALSE])

\* a variant of cancelUpload without the test that a request is registered:
\* it aborts whatever the registry returns for the id
cancelUploadUnguarded(id) ==
  LET regs == {r \in Running(id) : r.reg}
  IN /\ transfers' = [r \in BagToSet(transfers) \ regs |-> transfers[r]]
     /\ hung' = hung \cup {id}

\* cancelUpload: xhr.abort() and activeUploads.delete(fileId).  No abort
\* listener is installed (the hook passes no signal), so the aborted request
\* fires neither load, error nor timeout: the call's promise stays pending.
cancelUpload(id) ==
  LET regs == {r \in Running(id) : r.reg}
  IN /\ transfers' = [r \in BagToSet(transfers) \ regs |-> transfers[r]]
     /\ hung' = IF regs = {} THEN hung ELSE hung \cup {id}

\* cancelAllUploads: abort every registered request, clear the registry
cancelAllUploads ==
  LET regs == {r \in BagToSet(transfers) : r.reg}
  IN /\ transfers' = [r \in BagToSet(transfers) \ regs |-> transfers[r]]
     /\ hung' = hung \cup {r.id : r \in regs}

\* a variant of RetryDelay that starts the table again after its last entry
RetryDelayWrapped(attempt) == RETRY_DELAYS[(attempt % Len(RETRY_DELAYS)) + 1]

\* the backoff delay of uploadWithRetry after failed attempt number attempt
RetryDelay(attempt) == RETRY_DELAYS[Min(attempt, Len(RETRY_DELAYS) - 1) + 1]

\* a variant of GivesUp that stops one attempt early
GivesUpEarly(err, attempt) == err \notin RetryableErrors \/ attempt + 1 = maxRetries

\* uploadWithRetry stops retrying: the error is not retryable or it was the last attempt
GivesUp(err, attempt) == err \notin RetryableErrors \/ attempt = maxRetries

\* ------------------------------------------------------- hook: scheduling
\* processLoop: the Pending items of the snapshot
pendingFiles(fRef) == SelectSeq(fRef, LAMBDA f : f.status = "pending")

\* processLoop: free slots, from the uploading set of the snapshot
availableSlots(uRef) == maxConcurrent - Cardinality(uRef)

\* a variant of filesToUpload that takes the newest Pending items
filesToUploadNewest(fRef, uRef) ==
  LET pend == pendingFiles(fRef)
      n == Min(Len(pend), Max(availableSlots(uRef), 0))
  IN SubSeq(pend, Len(pend) - n + 1, Len(pend))

\* processLoop: the items handed to uploadFile in this evaluation
filesToUpload(fRef, uRef) ==
  IF availableSlots(uRef) > 0 /\ Len(pendingFiles(fRef)) > 0
  THEN Slice(pendingFiles(fRef), availableSlots(uRef))
  ELSE <<>>

\* processLoop: work is left, so another evaluation is scheduled
hasWork(fRef, uRef) == Len(pendingFiles(fRef)) > 0 \/ Cardinality(uRef) > 0

\* uploadService.uploadFile, attempt 0, for each item in turn: the new request
\* replaces whatever activeUploads holds under the id
RECURSIVE Started(_, _)
Started(B, toUpload) ==
  IF toUpload = <<>> THEN B
  ELSE Started(Unregister(B, Head(toUpload).id)
                 (+) One([id |-> Head(toUpload).id, attempt |-> 0,
                          phase |-> "xhr", reg |-> TRUE]),
               Tail(toUpload))

\* uploadFile (hook), up to its await, for every item of toUpload: mark the id
\* uploading, set the item's status, call uploadWithRetry
StartUploads(toUpload) ==
  LET admitted == {toUpload[k].id : k \in 1..Len(toUpload)}
  IN /\ BagCardinality(transfers) + Len(toUpload) <= MaxTransfers
     /\ uploading' = uploading \cup admitted
     /\ files' = [i \in 1..Len(files) |->
          IF files[i].id \in admitted THEN [files[i] EXCEPT !.status = "uploading"]
          ELSE files[i]]
     /\ transfers' = Started(transfers, toUpload)

\* one run of processLoop against the snapshot (fRef, uRef); processingRef is
\* TRUE on entry and the isProcessing of its closure is TRUE
processLoop(fRef, uRef) ==
  /\ StartUploads(filesToUpload(fRef, uRef))
  /\ IF hasWork(fRef, uRef)
     THEN /\ processingTimeout' = TRUE
          /\ processingRef' = TRUE
          /\ isProcessing' = isProcessing
     ELSE /\ processingTimeout' = FALSE
          /\ processingRef' = FALSE
          /\ isProcessing' = FALSE

\* the effect on [isProcessing, processQueue] runs processQueue
StartsQueue == isProcessing /\ ~renderedProcessing /\ ~processingRef

\* A commit: the effects copy files and uploading into the refs, the callbacks
\* capture the committed files, and the processing effect may start the loop.
Render ==
  /\ Stale
  /\ filesRef' = Snapshot(files)
  /\ uploadingRef' = uploading
  /\ renderedProcessing' = isProcessing
  /\ IF StartsQueue
     THEN processLoop(Snapshot(files), uploading)
     ELSE UNCHANGED <<files, uploading, isProcessing, processingRef,
                      processingTimeout, transfers>>
  /\ stops' = 0
  /\ UNCHANGED <<hung, removals, clearing, remoteStore, mounted, autoStart, budget, events,
                 nextId,
                 removedInFlight, clearedStatus, xhrVars, backoffVars>>

\* the cost of a task: one event when it runs ahead of the commit of the
\* updates queued so far, plus its own
Cost(own) == own + (IF Stale THEN 1 ELSE 0)

Charge(own) ==
  /\ events + Cost(own) <= budget
  /\ events' = events + Cost(own)
  /\ UNCHANGED <<xhrVars, backoffVars>>

Task(own) ==
  /\ Charge(own)
  /\ stops' = 0

\* the timer set by processLoop fires
PollTimer ==
  /\ Task(0)
  /\ processingTimeout
  /\ processLoop(filesRef, uploadingRef)
  /\ UNCHANGED <<refVars, hung, removals, clearing, remoteStore, mounted, autoStart, budget,
                 nextId,
                 removedInFlight, clearedStatus>>

\* ---------------------------------------------------------- hook: commands
addFiles(n) ==
  /\ Task(0)
  /\ mounted
  /\ nextId + n - 1 <= MaxFiles
  /\ files' = files \o [k \in 1..n |-> NewItem(nextId + k - 1)]
  /\ nextId' = nextId + n
  /\ isProcessing' = IF autoStart /\ ~processingRef THEN TRUE ELSE isProcessing
  /\ UNCHANGED <<uploading, refVars, processingRef, processingTimeout, transfers, hung,
                 removals, clearing, remoteStore, mounted, autoStart, budget,
                 removedInFlight, clearedStatus>>

Command ==
  /\ Task(1)
  /\ mounted

\* a variant of Retried that leaves the error on the item
RetriedKeepsError(f) == [f EXCEPT !.status = "pending", !.progress = 0]

\* retryFile: what the updater makes of the item with the given id
Retried(f) == [f EXCEPT !.status = "pending", !.progress = 0, !.error = NoError]

retryFile(id) ==
  /\ Command
  /\ files' = [i \in 1..Len(files) |->
       IF files[i].id = id THEN Retried(files[i]) ELSE files[i]]
  /\ isProcessing' = IF ~processingRef THEN TRUE ELSE isProcessing
  /\ UNCHANGED <<uploading, refVars, processingRef, processingTimeout, transfers, hung,
                 removals, clearing, remoteStore, mounted, autoStart, budget, nextId,
                 removedInFlight, clearedStatus>>

startProcessing ==
  /\ Command
  /\ isProcessing' = TRUE
  /\ UNCHANGED <<files, uploading, refVars, processingRef, processingTimeout,
                 transfers, hung, removals, clearing, remoteStore, mounted,
                 autoStart, budget, nextId,
                 removedInFlight, clearedStatus>>

\* stopProcessing; retryTimeoutsRef is never written, so it holds no timer
stopProcessing ==
  /\ Charge(1)
  /\ mounted
  /\ stops' = Min(stops + 1, 2)
  /\ isProcessing' = FALSE
  /\ processingRef' = FALSE
  /\ cancelAllUploads
  /\ processingTimeout' = FALSE
  /\ uploading' = {}
  /\ UNCHANGED <<files, refVars, removals, clearing, remoteStore, mounted, autoStart, budget, nextId,
                 removedInFlight, clearedStatus>>

\* the cleanup of the mount effect; React discards the state of the hook
Unmount ==
  /\ Task(0)
  /\ mounted
  /\ mounted' = FALSE
  /\ processingRef' = FALSE
  /\ cancelAllUploads
  /\ processingTimeout' = FALSE
  /\ files' = <<>>
  /\ uploading' = {}
  /\ isProcessing' = FALSE
  /\ filesRef' = <<>>
  /\ uploadingRef' = {}
  /\ renderedProcessing' = FALSE
  /\ UNCHANGED <<removals, clearing, remoteStore, autoStart, budget, nextId,
                 removedInFlight, clearedStatus>>

\* removeFile awaits deleteFile: the captured item is Completed and has an s3Key
NeedsRemoteDelete(fRef, id) ==
  \E f \in FindId(fRef, id) : f.s3Key /\ f.status = "completed"

Without(fs, id) == SelectSeq(fs, LAMBDA f : f.id # id)

\* a variant of DeleteMarked that also turns the item Failed
DeleteMarkedFailed(f) == [f EXCEPT !.error = DeleteFailed, !.status = "failed"]

\* the failure branch of removeFile and the marking of clearCompleted: the
\* updater sets the error of the item
DeleteMarked(f) == [f EXCEPT !.error = DeleteFailed]

removeFile(id) ==
  /\ Command
  /\ cancelUpload(id)
  /\ IF NeedsRemoteDelete(filesRef, id)
     THEN /\ removals[id] < MaxDeletes
          /\ removals' = [removals EXCEPT ![id] = @ + 1]
          /\ UNCHANGED <<files, uploading>>
     ELSE /\ files' = Without(files, id)
          /\ uploading' = uploading \ {id}
          /\ UNCHANGED removals
  /\ removedInFlight' = IF id \in activeUploads THEN removedInFlight \cup {id}
                        ELSE removedInFlight
  /\ UNCHANGED <<isProcessing, refVars, processingRef, processingTimeout, clearing,
                 remoteStore, mounted, autoStart, budget, nextId, clearedStatus>>

\* the deleteFile awaited by removeFile(id) settles
RemoveSettles(id, ok) ==
  /\ Task(0)
  /\ removals[id] > 0
  /\ removals' = [removals EXCEPT ![id] = @ - 1]
  /\ IF ok
     THEN /\ remoteStore' = remoteStore \ {id}
          /\ SetState(Without(files, id), uploading \ {id}, isProcessing)
     ELSE /\ remoteStore' = remoteStore
          /\ SetState([i \in 1..Len(files) |->
                         IF files[i].id = id THEN DeleteMarked(files[i]) ELSE files[i]],
                      uploading, isProcessing)
  /\ UNCHANGED <<refVars, processingRef, processingTimeout, transfers, hung,
                 clearing, mounted, autoStart, budget, nextId,
                 removedInFlight, clearedStatus>>

\* clearCompleted: the Completed items with an s3Key among the captured files
completedFiles(fRef) == SelectSeq(fRef, LAMBDA f : f.status = "completed" /\ f.s3Key)

\* a variant of Retained that keeps Pending items but not Uploading ones
RetainedPendingOnly(f, failedDeleteIds) ==
  \/ f.status = "completed" /\ f.id \in failedDeleteIds
  \/ f.status = "pending"

\* clearCompleted: the retention filter
Retained(f, failedDeleteIds) ==
  \/ f.status = "completed" /\ f.id \in failedDeleteIds
  \/ f.status # "completed" /\ f.status # "failed"

\* clearCompleted after its loop: mark the failed deletions, then filter
ClearFinish(fs, failedDeleteIds) ==
  LET marked == [i \in 1..Len(fs) |->
        IF fs[i].id \in failedDeleteIds THEN DeleteMarked(fs[i]) ELSE fs[i]]
  IN SelectSeq(marked, LAMBDA f : Retained(f, failedDeleteIds))

\* the statuses of the items of fs that gs no longer holds
Dropped(fs, gs) == {fs[i].status : i \in {j \in 1..Len(fs) : fs[j].id \notin IdsOf(gs)}}

clearCompleted ==
  /\ Command
  /\ IF Len(completedFiles(filesRef)) = 0
     THEN /\ files' = ClearFinish(files, {})
          /\ clearedStatus' = clearedStatus \cup Dropped(files, ClearFinish(files, {}))
          /\ UNCHANGED clearing
     ELSE /\ Len(clearing) < MaxDeletes
          /\ clearing' = Append(clearing,
               [todo |-> [k \in 1..Len(completedFiles(filesRef)) |->
                            completedFiles(filesRef)[k].id],
                failedDeleteIds |-> {}])
          /\ UNCHANGED <<files, clearedStatus>>
  /\ UNCHANGED <<uploading, isProcessing, refVars, processingRef, processingTimeout,
                 transfers, hung, removals, remoteStore, mounted, autoStart, budget, nextId,
                 removedInFlight>>

\* the deleteFile awaited by the k-th running clearCompleted settles
ClearSettles(k, ok) ==
  /\ Task(0)
  /\ k \in 1..Len(clearing)
  /\ LET op == clearing[k]
         id == Head(op.todo)
         failedIds == IF ok THEN op.failedDeleteIds ELSE op.failedDeleteIds \cup {id}
     IN /\ remoteStore' = IF ok THEN remoteStore \ {id} ELSE remoteStore
        /\ IF Len(op.todo) = 1
           THEN /\ clearing' = [j \in 1..(Len(clearing) - 1) |->
                     IF j < k THEN clearing[j] ELSE clearing[j + 1]]
                /\ SetState(ClearFinish(files, failedIds), uploading, isProcessing)
                /\ clearedStatus' = IF mounted
                     THEN clearedStatus \cup Dropped(files, ClearFinish(files, failedIds))
                     ELSE clearedStatus
           ELSE /\ clearing' = [clearing EXCEPT
                     ![k] = [todo |-> Tail(op.todo), failedDeleteIds |-> failedIds]]
                /\ UNCHANGED <<reactVars, clearedStatus>>
  /\ UNCHANGED <<refVars, processingRef, processingTimeout, transfers, hung,
                 removals, mounted, autoStart, budget, nextId,
                 removedInFlight>>

\* ------------------------------------------------- transfers: request events
\* uploadFile (hook), success branch
Completed(f, key) ==
  [f EXCEPT !.status = "completed", !.progress = 100, !.error = NoError, !.s3Key = key]

\* a variant of Failed that does not attach the error
FailedWithoutError(f, err) == [f EXCEPT !.status = "failed", !.retryCount = maxRetries]

\* uploadFile (hook), catch branch
Failed(f, err) == [f EXCEPT !.status = "failed", !.error = err, !.retryCount = maxRetries]

\* xhr.onload with a well-formed success response: the request leaves the
\* registry, uploadWithRetry returns and the hook marks the item completed
XhrSuccess(r, key) ==
  /\ Task(0)
  /\ r \in BagToSet(transfers)
  /\ r.phase = "xhr"
  /\ transfers' = Unregister(transfers (-) One(r), r.id)
  /\ remoteStore' = IF key THEN remoteStore \cup {r.id} ELSE remoteStore
  /\ SetState([i \in 1..Len(files) |->
                IF files[i].id = r.id THEN Completed(files[i], key) ELSE files[i]],
              uploading \ {r.id}, isProcessing)
  /\ UNCHANGED <<refVars, processingRef, processingTimeout, hung, removals, clearing,
                 mounted, autoStart, budget, nextId,
                 removedInFlight, clearedStatus>>

\* the request fails (onload with an error response, onerror, ontimeout):
\* uploadWithRetry either waits for the backoff delay or throws to the hook
XhrFailure(r, err) ==
  /\ Task(1)
  /\ r \in BagToSet(transfers)
  /\ r.phase = "xhr"
  /\ IF GivesUp(err, r.attempt)
     THEN /\ transfers' = Unregister(transfers (-) One(r), r.id)
          /\ SetState([i \in 1..Len(files) |->
                        IF files[i].id = r.id THEN Failed(files[i], err) ELSE files[i]],
                      uploading \ {r.id}, isProcessing)
     ELSE /\ transfers' = Unregister(transfers (-) One(r), r.id)
                            (+) One([r EXCEPT !.phase = "backoff", !.reg = FALSE])
          /\ UNCHANGED reactVars
  /\ UNCHANGED <<refVars, processingRef, processingTimeout, hung, removals, clearing,
                 remoteStore, mounted, autoStart, budget, nextId,
                 removedInFlight, clearedStatus>>

\* the backoff timer of uploadWithRetry fires: the next attempt sends a new
\* request and registers it under the id
BackoffTimer(r) ==
  /\ Task(0)
  /\ r \in BagToSet(transfers)
  /\ r.phase = "backoff"
  /\ transfers' = Unregister(transfers (-) One(r), r.id)
                    (+) One([r EXCEPT !.phase = "xhr", !.attempt = @ + 1, !.reg = TRUE])
  /\ UNCHANGED <<reactVars, refVars, processingRef, processingTimeout, hung, removals,
                 clearing, remoteStore, mounted, autoStart, budget, nextId,
                 removedInFlight, clearedStatus>>

\* xhr.upload.onprogress
XhrProgress(r, p) ==
  /\ Task(0)
  /\ r \in BagToSet(transfers)
  /\ r.phase = "xhr"
  /\ SetState([i \in 1..Len(files) |->
                IF files[i].id = r.id THEN [files[i] EXCEPT !.progress = p] ELSE files[i]],
              uploading, isProcessing)
  /\ UNCHANGED <<refVars, processingRef, processingTimeout, transfers, hung, removals,
                 clearing, remoteStore, mounted, autoStart, budget, nextId,
                 removedInFlight, clearedStatus>>

Next ==
  \/ \E n \in 1..MaxFiles : addFiles(n)
  \/ \E id \in Ids : retryFile(id)
  \/ \E id \in Ids : removeFile(id)
  \/ \E id \in Ids, ok \in BOOLEAN : RemoveSettles(id, ok)
  \/ clearCompleted
  \/ \E k \in 1..MaxDeletes, ok \in BOOLEAN : ClearSettles(k, ok)
  \/ startProcessing
  \/ stopProcessing
  \/ Unmount
  \/ Render
  \/ PollTimer
  \/ \E r \in BagToSet(transfers), key \in BOOLEAN : XhrSuccess(r, key)
  \/ \E r \in BagToSet(transfers), err \in RetryableErrors \cup FatalErrors : XhrFailure(r, err)
  \/ \E r \in BagToSet(transfers) : BackoffTimer(r)

Spec == Init /\ [][Next]_vars

\* the same with the progress events of the requests
NextP ==
  \/ Next
  \/ \E r \in BagToSet(transfers), p \in ProgressLevels : XhrProgress(r, p)

SpecP == Init /\ [][NextP]_vars

\* runs without commands after the first enqueue: the scheduler and the
\* transfers only, with room for every attempt of one call to fail
TransferInit ==
  /\ files = <<>>
  /\ uploading = {}
  /\ isProcessing = FALSE
  /\ filesRef = <<>>
  /\ uploadingRef = {}
  /\ renderedProcessing = FALSE
  /\ processingRef = FALSE
  /\ processingTimeout = FALSE
  /\ transfers = EmptyBag
  /\ hung = {}
  /\ removals = [id \in Ids |-> 0]
  /\ clearing = <<>>
  /\ remoteStore = {}
  /\ mounted = TRUE
  /\ autoStart = TRUE
  /\ budget = MaxFailures
  /\ events = 0
  /\ nextId = 1
  /\ removedInFlight = {}
  /\ clearedStatus = {}
  /\ stops = 0
  /\ xhrEvent = "none"
  /\ xhrStatus = 0
  /\ responseText = Body("empty", "absent", "absent", "absent", "absent")
  /\ rejected = NotRejected
  /\ retryLimit = maxRetries
  /\ retryAttempt = 0
  /\ retryDelay = 0

TransferNext ==
  \/ \E n \in 1..MaxFiles : files = <<>> /\ addFiles(n)
  \/ Render
  \/ PollTimer
  \/ \E r \in BagToSet(transfers), key \in BOOLEAN : XhrSuccess(r, key)
  \/ \E r \in BagToSet(transfers), err \in RetryableErrors \cup FatalErrors : XhrFailure(r, err)
  \/ \E r \in BagToSet(transfers) : BackoffTimer(r)

TransferSpec == TransferInit /\ [][TransferNext]_vars

\* ------------------------------------------------------------------ claims
Uploading == WithStatus(files, "uploading")
Pending == WithStatus(files, "pending")
CompletedIds == WithStatus(files, "completed")

\* the item with the given id, as the set of matches
Item(fs, id) == FindId(fs, id)

\* C1: the number of items whose status is Uploading never exceeds maxConcurrent.
C1_UploadingWithinCeiling == Cardinality(Uploading) <= maxConcurrent

\* C2, first half: a removeFile(id) called while a request for id is
\* registered aborts the request and takes it out of the registry.
C2_RemoveCancels ==
  [][\A id \in Ids : (removeFile(id) /\ id \in activeUploads) =>
       (id \notin activeUploads' /\ id \in hung')]_vars

\* C2: once removeFile(id) has been called while a transfer for id was in
\* flight, the item never afterwards has status Completed.
C2_NeverCompletedAfterRemove == removedInFlight \cap CompletedIds = {}

\* requests that are out (sent, not yet answered)
Requests(B) == BagCardinality([r \in {q \in BagToSet(B) : q.phase = "xhr"} |-> B[r]])

\* a request is sent in this step (a first attempt or a retry attempt)
AttemptStarts == Requests(transfers') > Requests(transfers)

\* the processing flag is clear
Halted == ~isProcessing /\ ~processingRef

\* C3: stop() is a hard halt, and so is unmount: while the processing flag is
\* clear, or after unmount, no transfer attempt is started, the attempts that
\* follow a backoff wait included.
C3_NoAttemptWhileStopped == [][(Halted \/ ~mounted) => ~AttemptStarts]_vars

\* nothing is left to run by itself: no request, timer, awaited deletion or commit
Quiescent ==
  /\ ~Stale
  /\ transfers = EmptyBag
  /\ ~processingTimeout
  /\ \A id \in Ids : removals[id] = 0
  /\ clearing = <<>>

\* C4: the transfer call of a cancelled request settles, so the cancelled item
\* leaves Uploading: once everything pending has run, no item whose request
\* was aborted is still Uploading.
C4_CancelledLeavesUploading == Quiescent => hung \cap Uploading = {}

\* ids of the Completed items that carry an s3Key
CompletedWithKey(fs) ==
  {fs[i].id : i \in {j \in 1..Len(fs) : fs[j].status = "completed" /\ fs[j].s3Key}}

\* C5: a Completed item with an s3Key leaves the collection only if its
\* remote object has been deleted, whatever the interleaving of removeFile,
\* clearCompleted and the settlements of the transfers and deletions.
C5_RemovedOnlyAfterRemoteDelete ==
  [][mounted' =>
       \A id \in CompletedWithKey(files) :
         id \notin IdsOf(files') => id \notin remoteStore']_vars

\* C6 (as stated): when the deleteFile awaited by removeFile(id) fails, the
\* item is in the collection, Completed, with its s3Key and the delete-failure
\* error, and the rest of the collection is unchanged.
C6_FailedRemoveLeavesCompleted ==
  [][\A id \in Ids : (RemoveSettles(id, FALSE) /\ mounted) =>
       /\ \E f \in Item(files', id) :
            f.status = "completed" /\ f.s3Key /\ f.error = DeleteFailed
       /\ \A i \in 1..Len(files) : files[i].id # id => files[i] \in Item(files', files[i].id)]_vars

\* C6 (amended): when the deleteFile awaited by removeFile(id) fails, nothing
\* is removed: the item, if still in the collection, keeps the status and
\* s3Key it has and gets the delete-failure error, every other item is
\* unchanged; and a removeFile(id) whose deleteFile succeeds removes the item.
C6_FailedRemoveOnlyMarks ==
  [][\A id \in Ids :
       /\ (RemoveSettles(id, FALSE) /\ mounted) =>
            /\ Len(files') = Len(files)
            /\ \A i \in 1..Len(files) :
                 files'[i] = IF files[i].id = id
                             THEN [files[i] EXCEPT !.error = DeleteFailed]
                             ELSE files[i]
       /\ (RemoveSettles(id, TRUE) /\ mounted) =>
            /\ id \notin IdsOf(files')
            /\ files' = SelectSeq(files, LAMBDA f : f.id # id)]_vars

\* an item carries the delete-failure error, is still Completed with its
\* s3Key, and a later removeFile of it awaits its deleteFile
C6_Witness ==
  \E i \in 1..Len(files) :
    /\ files[i].status = "completed" /\ files[i].s3Key
    /\ files[i].error = DeleteFailed
    /\ removals[files[i].id] > 0

\* a step of clearCompleted: the call, or a deleteFile it awaits settling
ClearStep == mounted /\ (clearCompleted \/ \E k \in 1..MaxDeletes, ok \in BOOLEAN : ClearSettles(k, ok))

\* C7 (as stated, its second half): a step of clearCompleted leaves every
\* item whose status is not Completed (Pending, Uploading, Failed) in the
\* collection, unchanged.
C7_OtherStatusUntouched ==
  [][ClearStep =>
       \A i \in 1..Len(files) :
         files[i].status # "completed" => files[i] \in Item(files', files[i].id)]_vars

\* the items in progress, in collection order, without their error field
InProgress(fs) ==
  LET act == SelectSeq(fs, LAMBDA f : f.status \in {"pending", "uploading"})
  IN [i \in 1..Len(act) |-> [id |-> act[i].id, status |-> act[i].status,
                              progress |-> act[i].progress,
                              retryCount |-> act[i].retryCount, s3Key |-> act[i].s3Key]]

\* C7 (amended): clearCompleted removes Failed items as well as Completed
\* ones and keeps of these only Completed items marked with the
\* delete-failure error; every Pending or Uploading item stays in place with
\* its status, progress, retry count and s3Key, and nothing is added.
C7_ClearKeepsInProgress ==
  [][ClearStep =>
       /\ InProgress(files') = InProgress(files)
       /\ IdsOf(files') \subseteq IdsOf(files)
       /\ files' # files =>
            /\ WithStatus(files', "failed") = {}
            /\ \A f \in {files'[i] : i \in 1..Len(files')} :
                 f.status = "completed" => f.error = DeleteFailed]_vars

\* a clearCompleted has removed a Failed item and an item in progress is
\* still in the collection
C7_Witness == "failed" \in clearedStatus /\ InProgress(files) # <<>> /\ clearing = <<>>

\* the ids whose deletion has failed in the k-th running clearCompleted, once
\* the deleteFile it awaits settles with ok
FailedDeletes(k, ok) ==
  clearing[k].failedDeleteIds \cup (IF ok THEN {} ELSE {Head(clearing[k].todo)})

\* C8: in clearCompleted a failed deletion puts the delete-failure error on
\* that item only and the item stays in the collection; the loop goes on to
\* the remaining deletions, and the other Completed items are removed.
C8_FailedDeleteIsolated ==
  [][\A k \in 1..MaxDeletes, ok \in BOOLEAN : (ClearSettles(k, ok) /\ mounted) =>
       IF Len(clearing[k].todo) > 1
       THEN /\ Len(clearing') = Len(clearing)
            /\ clearing'[k].todo = Tail(clearing[k].todo)
            /\ files' = files
       ELSE /\ \A id \in FailedDeletes(k, ok) \cap IdsOf(files) :
                 \E f \in Item(files', id) : f.error = DeleteFailed
            /\ \A f \in {files'[i] : i \in 1..Len(files')} :
                 f.id \notin FailedDeletes(k, ok) => f \in Item(files, f.id)
            /\ CompletedIds' \subseteq FailedDeletes(k, ok)]_vars

\* a scheduling evaluation: one run of processLoop, from the poll timer or
\* from the processing effect of a commit
Evaluation == PollTimer \/ (Render /\ StartsQueue)

\* uploadWithRetry calls running for the given id
Calls(B, id) == BagCardinality([r \in {q \in BagToSet(B) : q.id = id} |-> B[r]])

\* the evaluation of this step hands the item to uploadFile
Admitted(id) == Calls(transfers', id) > Calls(transfers, id)

\* C9 (as stated): at every scheduling evaluation no Pending item is admitted
\* while an older (earlier-positioned) Pending item is left Pending.
C9_AdmissionFifo ==
  [][Evaluation =>
       \A i, j \in 1..Len(files) :
         (i < j /\ files[i].status = "pending" /\ files[j].status = "pending"
            /\ Admitted(files[j].id)) => files'[i].status # "pending"]_vars

\* the evaluation admits the Pending items of the snapshot S oldest first
Fifo(S) ==
  \A i, j \in 1..Len(S) :
    (i < j /\ S[i].status = "pending" /\ S[j].status = "pending" /\ Admitted(S[j].id))
      => Admitted(S[i].id)

\* C9 (amended): at every scheduling evaluation the items admitted are the
\* oldest Pending items, in collection order, of the committed snapshot the
\* evaluation reads: no item Pending in the snapshot is admitted while an
\* earlier one Pending in the snapshot is passed over.
C9_SnapshotFifo ==
  [][/\ PollTimer => Fifo(filesRef)
     /\ (Render /\ StartsQueue) => Fifo(Snapshot(files))]_vars

\* an evaluation has admitted the oldest Pending items of its snapshot and
\* left a younger one Pending
C9_Witness ==
  \E i, j \in 1..Len(files) :
    /\ i < j /\ Len(filesRef) = Len(files)
    /\ filesRef[i].status = "pending" /\ filesRef[j].status = "pending"
    /\ files[i].status = "uploading" /\ Calls(transfers, files[i].id) > 0
    /\ files[j].status = "pending"

\* C10: with n Pending items and u Uploading items in the collection, one
\* scheduling evaluation admits exactly min(n, max(0, maxConcurrent - u)) items.
C10_AdmissionCount ==
  [][Evaluation =>
       BagCardinality(transfers') - BagCardinality(transfers) =
         Min(Cardinality(Pending), Max(0, maxConcurrent - Cardinality(Uploading)))]_vars

\* C11: an item whose first attempt fails with a non-retryable error goes to
\* Failed with the error recorded, no further attempt is made by that call,
\* and its retryCount is 0.
C11_FatalFirstAttempt ==
  [][\A r \in BagToSet(transfers), err \in FatalErrors :
       (XhrFailure(r, err) /\ r.attempt = 0 /\ mounted) =>
         /\ Calls(transfers', r.id) < Calls(transfers, r.id)
         /\ \A f \in Item(files', r.id) :
              f.status = "failed" /\ f.error = err /\ f.retryCount = 0]_vars

\* C12: an item whose only transfer call fails with retryable errors on its
\* first k attempts (r.attempt = k) and then succeeds ends Completed with
\* retryCount = k; the item has not failed before (its retryCount is 0).
C12_RetryCountOnSuccess ==
  [][\A r \in BagToSet(transfers), key \in BOOLEAN :
       (XhrSuccess(r, key) /\ mounted /\ Calls(transfers, r.id) = 1) =>
         \A f \in Item(files, r.id) :
           (f.status = "uploading" /\ f.retryCount = 0) =>
             \A g \in Item(files', r.id) :
               g.status = "completed" /\ g.retryCount = r.attempt]_vars

\* C13: a call whose attempts all fail with retryable errors keeps retrying
\* until attempt number maxRetries has failed; the item then ends Failed with
\* retryCount = maxRetries and the error recorded; and retryCount exceeds
\* maxRetries in no reachable state.
C13_ExhaustedRetries ==
  /\ [][\A r \in BagToSet(transfers), err \in RetryableErrors :
          (XhrFailure(r, err) /\ mounted) =>
            IF r.attempt < maxRetries
            THEN /\ files' = files
                 /\ Calls(transfers', r.id) = Calls(transfers, r.id)
                 /\ \E q \in BagToSet(transfers') :
                      q.id = r.id /\ q.phase = "backoff" /\ q.attempt = r.attempt
            ELSE /\ Calls(transfers', r.id) < Calls(transfers, r.id)
                 /\ \A g \in Item(files', r.id) :
                      g.status = "failed" /\ g.retryCount = maxRetries /\ g.error = err]_vars
  /\ [](\A i \in 1..Len(files) : files[i].retryCount <= maxRetries)

\* an item has ended Failed after every attempt of its call failed with a
\* retryable error
C13_Witness ==
  \E i \in 1..Len(files) :
    /\ files[i].status = "failed"
    /\ files[i].error \in RetryableErrors
    /\ files[i].retryCount = maxRetries

\* C14: when an attempt of an Uploading item fails with a retryable error and
\* retries remain, the item becomes Pending for the backoff wait, with its
\* retryCount incremented by 1.
C14_PendingDuringBackoff ==
  [][\A r \in BagToSet(transfers), err \in RetryableErrors :
       (XhrFailure(r, err) /\ mounted /\ r.attempt < maxRetries) =>
         \A i \in 1..Len(files) :
           (files[i].id = r.id /\ files[i].status = "uploading") =>
             /\ files'[i].status = "pending"
             /\ files'[i].retryCount = files[i].retryCount + 1]_vars

\* C15: retryFile(id) on an id whose item is not Failed (Pending, Uploading,
\* Completed, or no item at all) leaves the collection and the processing
\* flag unchanged.
C15_RetryOnlyFromFailed ==
  [][\A id \in Ids :
       (retryFile(id) /\ id \notin WithStatus(files, "failed")) =>
         files' = files /\ isProcessing' = isProcessing]_vars

\* C16: retryFile(id) on a Failed item sets its status to Pending, its
\* progress to 0 and its retryCount to 0, clears its error, and leaves every
\* other item unchanged.
C16_RetryResetsItem ==
  [][\A id \in Ids :
       (retryFile(id) /\ id \in WithStatus(files, "failed")) =>
         /\ Len(files') = Len(files)
         /\ \A i \in 1..Len(files) :
              IF files[i].id = id
              THEN /\ files'[i].status = "pending"
                   /\ files'[i].progress = 0
                   /\ files'[i].retryCount = 0
                   /\ files'[i].error = NoError
              ELSE files'[i] = files[i]]_vars

\* C17: removeFile(id) on an item that is not Completed with an s3Key removes
\* it at once without a remote delete and cancels the backoff timer of its
\* retry: no timer of the id is left pending by the removal, and no backoff
\* timer starts an attempt for an id that is no longer in the collection.
C17_RemoveCancelsBackoff ==
  [][/\ \A id \in Ids :
          (removeFile(id) /\ ~NeedsRemoteDelete(filesRef, id)
             /\ id \in IdsOf(files) /\ id \notin CompletedWithKey(files)) =>
            /\ id \notin IdsOf(files')
            /\ removals' = removals /\ remoteStore' = remoteStore
            /\ \A r \in BagToSet(transfers') : r.id = id => r.phase # "backoff"
     /\ \A r \in BagToSet(transfers) :
          (BackoffTimer(r) /\ mounted) => r.id \in IdsOf(files)]_vars
\* C18: once removeFile(id) has removed a Pending item, no later scheduling
\* evaluation admits the id or starts a transfer for it, even when the
\* evaluation works from a snapshot taken before the removal: every item an
\* evaluation admits is in the collection.
C18_NoAdmissionAfterRemove ==
  [][Evaluation => \A id \in Ids \ removedInFlight :
                     Admitted(id) => id \in IdsOf(files)]_vars

\* C19: addFiles appends exactly one item per file at the tail of the
\* collection, in input order (ids are handed out in that order), each one
\* Pending with progress 0, retryCount 0, no error and no s3Key; the items
\* already there are unchanged and no transfer is started: the calls in
\* flight and the uploading set stay as they were, and the processing flag
\* changes only to TRUE and only when autoStart is set. Nothing else makes the
\* collection longer.
C19_EnqueueAppends ==
  [][/\ nextId' > nextId =>
          /\ Len(files') = Len(files) + (nextId' - nextId)
          /\ SubSeq(files', 1, Len(files)) = files
          /\ \A k \in 1..(nextId' - nextId) :
               LET f == files'[Len(files) + k]
               IN /\ f.id = nextId + k - 1
                  /\ f.status = "pending" /\ f.progress = 0 /\ f.retryCount = 0
                  /\ f.error = NoError /\ ~f.s3Key
          /\ transfers' = transfers /\ uploading' = uploading
          /\ uploadingRef' = uploadingRef /\ remoteStore' = remoteStore
          /\ (isProcessing' = isProcessing \/ (autoStart /\ isProcessing'))
     /\ Len(files') > Len(files) => nextId' > nextId]_vars

\* two files were enqueued behind an item that is already uploading
C19_Witness ==
  /\ Len(filesRef) = 1 /\ Len(files) = 3 /\ nextId = 4
  /\ files[1].status = "uploading"
  /\ files[2] = NewItem(2) /\ files[3] = NewItem(3)

\* the queue as stopProcessing leaves it
Stopped ==
  /\ ~isProcessing /\ ~processingRef /\ ~processingTimeout
  /\ activeUploads = {} /\ uploading = {}

\* C20: stopProcessing and cancelUpload are idempotent. Every stopProcessing
\* leaves the queue stopped, and a stopProcessing called right after another
\* one leaves the items, the calls in flight with their registry, the
\* aborted ids and the processing flag as they were. The cancelUpload(id)
\* that removeFile(id) makes for an id with no registered request leaves the
\* calls in flight, the registry, the aborted ids and the processing flag as
\* they were, and the items too as long as removeFile itself removes none.
C20_StopAndCancelIdempotent ==
  [][/\ stopProcessing => Stopped'
     /\ (stopProcessing /\ stops >= 1) =>
          /\ Stopped
          /\ files' = files /\ transfers' = transfers /\ hung' = hung
          /\ isProcessing' = isProcessing /\ uploading' = uploading
          /\ processingRef' = processingRef /\ processingTimeout' = processingTimeout
     /\ \A id \in Ids :
          (removeFile(id) /\ id \notin activeUploads) =>
            /\ transfers' = transfers /\ hung' = hung
            /\ isProcessing' = isProcessing
            /\ NeedsRemoteDelete(filesRef, id) => files' = files]_vars

\* stopProcessing ran twice in a row, the first one having aborted the
\* request of an item that is still shown as uploading
C20_Witness ==
  /\ stops = 2 /\ mounted /\ Stopped
  /\ \E i \in 1..Len(files) : files[i].status = "uploading" /\ files[i].id \in hung

\* removeFile was called for a Completed item, which has no request, and its
\* remote delete is awaited
C20_CancelWithoutRequest ==
  \E id \in CompletedWithKey(files) : removals[id] > 0 /\ id \notin hung
\* C21: the scheduling loop halts on its own and clears isProcessing only when
\* no item is Pending and no item is Uploading: a step other than
\* stopProcessing that clears the flag finds no such item, and an evaluation
\* made while the flag is set and some item is Pending or Uploading leaves
\* the flag set and schedules the next evaluation.
C21_HaltsOnlyWhenDone ==
  [][/\ (isProcessing /\ ~isProcessing' /\ stops' = 0 /\ mounted') =>
          Pending \cup Uploading = {}
     /\ (Evaluation /\ isProcessing /\ Pending \cup Uploading # {}) =>
          isProcessing' /\ processingTimeout']_vars

\* the request of a running call is answered: load, error or timeout
Settles(r) ==
  \/ \E key \in BOOLEAN : XhrSuccess(r, key)
  \/ \E err \in RetryableErrors \cup FatalErrors : XhrFailure(r, err)

\* runs in which processing is started by autoStart and never stopped, nothing
\* is removed and the component stays mounted: enqueues, commits, polls and
\* transfer events only
LiveInit ==
  /\ files = <<>>
  /\ uploading = {}
  /\ isProcessing = FALSE
  /\ filesRef = <<>>
  /\ uploadingRef = {}
  /\ renderedProcessing = FALSE
  /\ processingRef = FALSE
  /\ processingTimeout = FALSE
  /\ transfers = EmptyBag
  /\ hung = {}
  /\ removals = [id \in Ids |-> 0]
  /\ clearing = <<>>
  /\ remoteStore = {}
  /\ mounted = TRUE
  /\ autoStart = TRUE
  /\ budget = MaxEvents
  /\ events = 0
  /\ nextId = 1
  /\ removedInFlight = {}
  /\ clearedStatus = {}
  /\ stops = 0
  /\ xhrEvent = "none"
  /\ xhrStatus = 0
  /\ responseText = Body("empty", "absent", "absent", "absent", "absent")
  /\ rejected = NotRejected
  /\ retryLimit = maxRetries
  /\ retryAttempt = 0
  /\ retryDelay = 0

LiveNext ==
  \/ \E n \in 1..MaxFiles : addFiles(n)
  \/ Render
  \/ PollTimer
  \/ \E r \in BagToSet(transfers), key \in BOOLEAN : XhrSuccess(r, key)
  \/ \E r \in BagToSet(transfers), err \in RetryableErrors \cup FatalErrors : XhrFailure(r, err)
  \/ \E r \in BagToSet(transfers) : BackoffTimer(r)

\* React commits every queued update, a timer that is set fires, and every
\* request is answered
LiveSpec ==
  /\ LiveInit
  /\ [][LiveNext]_vars
  /\ WF_vars(Render)
  /\ WF_vars(PollTimer)
  /\ WF_vars(\E r \in BagToSet(transfers) : BackoffTimer(r))
  /\ WF_vars(\E r \in BagToSet(transfers) : Settles(r))

\* C22: with processing started and never stopped and every attempt settling,
\* every enqueued item eventually is Completed or Failed, and a set
\* processing flag is eventually cleared.
C22_EveryItemSettles ==
  /\ \A id \in Ids :
       [](id \in IdsOf(files) =>
            <>(id \in WithStatus(files, "completed") \cup WithStatus(files, "failed")))
  /\ [](isProcessing => <>(~isProcessing))

\* C23: activeUploads holds a request for an id only while an item with that
\* id is in the collection with status Uploading, and the entry is deleted
\* when the attempt settles: a request that is answered leaves no entry for
\* its id behind.
C23_RegistryOnlyWhileUploading ==
  /\ [](mounted => activeUploads \subseteq Uploading)
  /\ [][\A r \in BagToSet(transfers) :
          (Settles(r) /\ r.reg) => r.id \notin {q.id : q \in {p \in BagToSet(transfers') : p.reg}}]_vars

\* the edges of the status machine of an item
StatusEdges ==
  {<<"pending", "uploading">>, <<"uploading", "completed">>, <<"uploading", "pending">>,
   <<"uploading", "failed">>, <<"failed", "pending">>}

\* C24: every change of an item's status, in any step, follows an edge of the
\* status machine; so a Completed item never changes status again, and a
\* command returns only Failed items to Pending.
C24_StatusEdgesOnly ==
  [][\A i \in 1..Len(files), j \in 1..Len(files') :
       (mounted /\ files[i].id = files'[j].id /\ files[i].status # files'[j].status) =>
         <<files[i].status, files'[j].status>> \in StatusEdges]_vars

\* a variant of stats that takes the number of uploads from the uploading set
statsFromUploadingSet(fs) ==
  [total     |-> Len(fs),
   pending   |-> Len(SelectSeq(fs, LAMBDA f : f.status = "pending")),
   uploading |-> Cardinality(uploading),
   completed |-> Len(SelectSeq(fs, LAMBDA f : f.status = "completed")),
   failed    |-> Len(SelectSeq(fs, LAMBDA f : f.status = "failed"))]

\* stats, as the hook computes it from the files of a render
stats(fs) ==
  [total     |-> Len(fs),
   pending   |-> Len(SelectSeq(fs, LAMBDA f : f.status = "pending")),
   uploading |-> Len(SelectSeq(fs, LAMBDA f : f.status = "uploading")),
   completed |-> Len(SelectSeq(fs, LAMBDA f : f.status = "completed")),
   failed    |-> Len(SelectSeq(fs, LAMBDA f : f.status = "failed"))]

\* the number of items with the given status
NumWithStatus(st) == Cardinality({i \in 1..Len(files) : files[i].status = st})

C27_KeyOnlyWhenCompleted ==
  mounted => \A i \in 1..Len(files) : files[i].s3Key => files[i].status = "completed"

\* a new attempt of a call for the given id begins in this step: the backoff
\* timer of its retry fires, or retryFile returns the item to the queue
NewAttempt(id) ==
  \/ \E r \in BagToSet(transfers) : r.id = id /\ BackoffTimer(r)
  \/ retryFile(id)

\* C28: the progress of an item is within 0..100 and is 100 whenever the item
\* is Completed; it does not decrease while the item stays Uploading within
\* one attempt; and it is 0 when a retry, automatic or manual, begins a new
\* attempt.
C28_ProgressPerAttempt ==
  /\ [](mounted => \A i \in 1..Len(files) :
          /\ files[i].progress \in 0..100
          /\ files[i].status = "completed" => files[i].progress = 100)
  /\ [][\A i \in 1..Len(files), j \in 1..Len(files') :
          (mounted /\ files[i].id = files'[j].id) =>
            /\ NewAttempt(files[i].id) => files'[j].progress = 0
            /\ (files[i].status = "uploading" /\ files'[j].status = "uploading"
                  /\ ~NewAttempt(files[i].id)) =>
                 files'[j].progress >= files[i].progress]_vars


\* ------------------------------------- uploadService: xhr.onload, HTTP errors
\* a variant of UnparsedRetryable that takes only statuses above 500
UnparsedRetryableAbove(status) == status > 500

\* the catch branch of the HTTP error branch: the body could not be read
UnparsedRetryable(status) == status >= 500

\* const errorResponse = JSON.parse(xhr.responseText); errorResponse.error:
\* JSON.parse throws on an empty or malformed text, and reading a member of
\* null throws as well
ReadThrows(body) == body.json \in {"empty", "garbage", "null"}

\* error.retryable, error being errorResponse.error || {}: undefined unless
\* the error member is an object that has the member
RetryableMember(body) ==
  IF body.json = "object" /\ body.error = "object" THEN body.retryable ELSE "absent"

\* the retryable flag of the UploadError the HTTP error branch of xhr.onload
\* rejects with: error.retryable !== false, or the catch branch
HttpErrorRetryable(status, body) ==
  IF ReadThrows(body) THEN UnparsedRetryable(status)
  ELSE RetryableMember(body) # "false"

\* a variant of Resolves that does not ask for the data member
ResolvesWithoutData(body) == ~ReadThrows(body) /\ body.success = "true"

\* the 200 branch: response.success && response.data
Resolves(body) == ~ReadThrows(body) /\ body.success = "true" /\ body.data = "object"

\* the 200 branch without success and data: error.retryable || false
FailureRetryable(body) == RetryableMember(body) \in {"true", "string"}

\* uploadService.uploadFile creates the request and sends it
Send ==
  /\ xhrEvent \in {"none", "abort"} \/ rejected.settled
  /\ xhrEvent' = "sent"
  /\ xhrStatus' = 0
  /\ responseText' = Body("empty", "absent", "absent", "absent", "absent")
  /\ rejected' = NotRejected
  /\ UNCHANGED <<hookVars, backoffVars, backoffVars>>

\* xhr.send throws
SendThrows ==
  /\ xhrEvent \in {"none", "abort"} \/ rejected.settled
  /\ xhrEvent' = "throw"
  /\ xhrStatus' = 0
  /\ responseText' = Body("empty", "absent", "absent", "absent", "absent")
  /\ rejected' = UploadError(FALSE, "SEND_ERROR")
  /\ UNCHANGED <<hookVars, backoffVars, backoffVars>>

\* the response to the request arrives
Respond(status, body) ==
  /\ xhrEvent = "sent"
  /\ xhrEvent' = "load"
  /\ xhrStatus' = status
  /\ responseText' = body
  /\ UNCHANGED <<hookVars, backoffVars, rejected>>

\* xhr.onload takes its 200 branch
OnLoadOk ==
  /\ xhrEvent = "load" /\ xhrStatus = SuccessStatus
  /\ ~rejected.settled
  /\ rejected' = IF ReadThrows(responseText) THEN UploadError(FALSE, "PARSE_ERROR")
                  ELSE IF Resolves(responseText) THEN Resolved
                  ELSE UploadError(FailureRetryable(responseText), "BODY_CODE")
  /\ UNCHANGED <<hookVars, backoffVars, xhrEvent, xhrStatus, responseText>>

\* xhr.onload takes its HTTP error branch and rejects
OnLoadHttpError ==
  /\ xhrEvent = "load" /\ xhrStatus # SuccessStatus
  /\ ~rejected.settled
  /\ rejected' = UploadError(HttpErrorRetryable(xhrStatus, responseText),
                             IF ReadThrows(responseText) THEN "HTTP_STATUS"
                             ELSE "BODY_CODE_OR_HTTP_STATUS")
  /\ UNCHANGED <<hookVars, backoffVars, xhrEvent, xhrStatus, responseText>>

\* xhr.onerror
OnError ==
  /\ xhrEvent = "sent"
  /\ xhrEvent' = "error"
  /\ rejected' = UploadError(TRUE, "NETWORK_ERROR")
  /\ UNCHANGED <<hookVars, backoffVars, xhrStatus, responseText>>

\* xhr.ontimeout
OnTimeout ==
  /\ xhrEvent = "sent"
  /\ xhrEvent' = "timeout"
  /\ rejected' = UploadError(TRUE, "TIMEOUT_ERROR")
  /\ UNCHANGED <<hookVars, backoffVars, xhrStatus, responseText>>

\* cancelUpload or cancelAllUploads: xhr.abort().  The hook passes no signal,
\* so the listener that rejects with USER_CANCELLED is not installed, and
\* xhr.onabort is not set: the promise is left as it is.
Abort ==
  /\ xhrEvent = "sent"
  /\ xhrEvent' = "abort"
  /\ UNCHANGED <<hookVars, backoffVars, xhrStatus, responseText, rejected>>

ClassifyNext ==
  \/ Send
  \/ SendThrows
  \/ \E status \in {SuccessStatus} \cup HttpErrorStatuses, body \in Bodies :
       Respond(status, body)
  \/ OnLoadOk
  \/ OnLoadHttpError
  \/ OnError
  \/ OnTimeout
  \/ Abort

\* the settling of one request of uploadService after another, on its own
ClassifySpec == Init /\ [][ClassifyNext]_vars

\* the body marks the error retryable: its error object has retryable: true
MarksRetryable(body) ==
  body.json = "object" /\ body.error = "object" /\ body.retryable = "true"

\* C29: a response with a status in 400..499 is rejected with retryable false
\* unless its body carries retryable: true, whether the body is JSON without
\* the member, JSON with retryable false, or not JSON.
C29_ClientErrorNotRetryable ==
  (rejected.settled /\ xhrStatus \in 400..499) =>
    (rejected.retryable <=> MarksRetryable(responseText))


\* the body marks the error not retryable: its error object has
\* retryable: false
MarksNotRetryable(body) ==
  body.json = "object" /\ body.error = "object" /\ body.retryable = "false"

\* C30: a response with a status of 500 or more is rejected with retryable
\* true, whatever its body contains.
C30_ServerErrorRetryable ==
  (rejected.settled /\ xhrStatus >= 500) => rejected.retryable

\* C30, amended: a response with a status of 500 or more is rejected with
\* retryable true, with no body, an unreadable body or a JSON body, unless
\* the error object of the body carries retryable: false, and then with
\* retryable false.
C30_ServerErrorRetryableByDefault ==
  (rejected.settled /\ xhrStatus >= 500) =>
    (rejected.retryable <=> ~MarksNotRetryable(responseText))

\* a 500 with a malformed body has been rejected as retryable
C30_Witness ==
  /\ rejected.settled /\ rejected.retryable
  /\ xhrStatus = 500 /\ responseText.json = "garbage"


\* the text of the body is not JSON
Unparseable(body) == body.json \in {"empty", "garbage"}

C32_TransportTimeoutCancel ==
  /\ xhrEvent = "error" =>
       rejected = UploadError(TRUE, "NETWORK_ERROR")
  /\ xhrEvent = "timeout" =>
       rejected = UploadError(TRUE, "TIMEOUT_ERROR")
  /\ xhrEvent = "abort" =>
       rejected = UploadError(FALSE, "USER_CANCELLED")


\* ------------------------------------------ uploadService: the backoff waits
\* uploadWithRetry is called with some maxRetries: the loop starts at attempt 0
UploadWithRetry(limit) ==
  /\ retryLimit' = limit
  /\ retryAttempt' = 0
  /\ retryDelay' = 0
  /\ UNCHANGED <<hookVars, xhrVars>>

\* an attempt that is not the last one has failed with a retryable error: the
\* loop waits for the delay of that attempt and goes to the next attempt
WaitBeforeRetry ==
  /\ retryAttempt < retryLimit
  /\ retryDelay' = RetryDelay(retryAttempt)
  /\ retryAttempt' = retryAttempt + 1
  /\ UNCHANGED <<hookVars, xhrVars, retryLimit>>

BackoffNext ==
  \/ \E limit \in 0..MaxRetryLimit : UploadWithRetry(limit)
  \/ WaitBeforeRetry

BackoffSpec == Init /\ [][BackoffNext]_vars

\* C33: the wait after attempt a is 1000 ms for a = 0, 2000 ms for a = 1 and
\* 4000 ms, the last entry of the table, for every a >= 2, whatever maxRetries
\* is; and within one call the waits never get shorter
C33_BackoffDelay ==
  /\ [](retryAttempt > 0 =>
          /\ retryAttempt = 1 => retryDelay = 1000
          /\ retryAttempt = 2 => retryDelay = 2000
          /\ retryAttempt >= 3 => retryDelay = 4000
          /\ retryDelay = RETRY_DELAYS[Min(retryAttempt - 1, Len(RETRY_DELAYS) - 1) + 1])
  /\ [][retryAttempt' > retryAttempt => retryDelay' >= retryDelay]_vars

\* the wait after attempt 4, beyond the table, in a call with maxRetries = 7
C33_Witness == retryLimit = 7 /\ retryAttempt = 5 /\ retryDelay = 4000


\* C34: every attempt of a call of the retry wrapper has a number in
\* 0..maxRetries; a call starts at attempt 0 and its backoff timer starts the
\* attempt with the next number; the call ends at its first success, at its
\* first non-retryable failure and at the failure of attempt maxRetries, and
\* goes on after any other failure; the error the hook attaches to the Failed
\* item is the error of that last attempt.
C34_AttemptsOfOneCall ==
  /\ [](\A r \in BagToSet(transfers) : r.attempt \in 0..maxRetries)
  /\ [][\A id \in Ids :
          Calls(transfers', id) > Calls(transfers, id) =>
            \E q \in BagToSet(transfers') :
              /\ q.id = id /\ q.attempt = 0 /\ q.phase = "xhr"
              /\ CopiesIn(q, transfers') > CopiesIn(q, transfers)]_vars
  /\ [][\A r \in BagToSet(transfers) :
          BackoffTimer(r) =>
            /\ r.attempt < maxRetries
            /\ Calls(transfers', r.id) = Calls(transfers, r.id)
            /\ \E q \in BagToSet(transfers') :
                 /\ q.id = r.id /\ q.phase = "xhr" /\ q.attempt = r.attempt + 1
                 /\ CopiesIn(q, transfers') > CopiesIn(q, transfers)]_vars
  /\ [][\A r \in BagToSet(transfers), key \in BOOLEAN :
          XhrSuccess(r, key) => Calls(transfers', r.id) = Calls(transfers, r.id) - 1]_vars
  /\ [][\A r \in BagToSet(transfers), err \in RetryableErrors \cup FatalErrors :
          XhrFailure(r, err) =>
            IF err \in FatalErrors \/ r.attempt = maxRetries
            THEN /\ Calls(transfers', r.id) = Calls(transfers, r.id) - 1
                 /\ mounted => \A g \in Item(files', r.id) :
                                 g.status = "failed" /\ g.error = err
            ELSE /\ Calls(transfers', r.id) = Calls(transfers, r.id)
                 /\ \E q \in BagToSet(transfers') :
                      /\ q.id = r.id /\ q.phase = "backoff" /\ q.attempt = r.attempt
                      /\ CopiesIn(q, transfers') > CopiesIn(q, transfers)]_vars

\* one call has ended at a non-retryable failure, its item is Failed with that
\* error, while another call is at its last attempt, number maxRetries
C34_Witness ==
  /\ \E i \in 1..Len(files) :
       /\ files[i].status = "failed" /\ files[i].error \in FatalErrors
       /\ Running(files[i].id) = {}
  /\ \E r \in BagToSet(transfers) : r.attempt = maxRetries /\ r.phase = "xhr"


\* the step moves the item with the given id from Pending to Uploading
MovesToUploading(id) ==
  /\ \E f \in Item(files, id) : f.status = "pending"
  /\ \E g \in Item(files', id) : g.status = "uploading"

\* the step sets the processing flag
SetsFlag == ~isProcessing /\ isProcessing'

\* C35: no step taken while the processing flag is clear moves a Pending item
\* to Uploading; with autoStart disabled no item leaves Pending unless the
\* flag has been set; and the flag is set only by start(), by an enqueue with
\* autoStart enabled and by retry() of an item that is Failed.
C35_FlagGatesAdmission ==
  /\ [][\A id \in Ids : MovesToUploading(id) => isProcessing]_vars
  /\ [][SetsFlag =>
          \/ startProcessing
          \/ autoStart /\ \E n \in 1..MaxFiles : addFiles(n)
          \/ \E id \in Ids :
               /\ retryFile(id)
               /\ \E f \in Item(files, id) : f.status = "failed"]_vars

\* C35 without its last part: Pending items are admitted only while the flag
\* is set, and only start(), an enqueue with autoStart and retry() set it
C35_AdmissionOnlyWhileSet ==
  /\ [][\A id \in Ids : MovesToUploading(id) => isProcessing /\ processingRef']_vars
  /\ [][SetsFlag =>
          \/ startProcessing
          \/ autoStart /\ \E n \in 1..MaxFiles : addFiles(n)
          \/ \E id \in Ids : retryFile(id)]_vars


\* C36: in every reachable state at most one call of the retry wrapper, in a
\* request or in a backoff wait, is running for any id, and no admission
\* registers a request under an id that activeUploads already holds.
C36_OneTransferPerId ==
  /\ [](\A id \in Ids : Calls(transfers, id) <= 1)
  /\ [][\A id \in Ids : Admitted(id) => id \notin activeUploads]_vars


\* C37: in every reachable state of the mounted hook the uploading set holds
\* exactly the ids of the items of the collection whose status is Uploading.
C37_UploadingSetMatchesStatus == mounted => uploading = Uploading

====
